---- MODULE Spec2Model ----
(***************************************************************************)
(* Model of src/rust/src/lib.rs: the SQLiteUndoRedo engine (struct Undo    *)
(* plus the temporary undolog table and the change-recording triggers) and *)
(* the part of the SQLite connection it drives: two user tables tbl1(a)    *)
(* and tbl2(b) (setup_connection), rowid allocation, the temp triggers,    *)
(* quote() and the literal parser, statement-level constraint failure and  *)
(* the transaction opened by _step.                                        *)
(***************************************************************************)
EXTENDS Integers, Sequences, FiniteSets, TLC

\* ------------------------------------------------------------- bounds
\* Number of row-level statements the caller issues in one run.
MaxStatements == 2
\* Largest seq the undolog may hold: a step whose replay would log a row
\* beyond it is not taken (undo/redo cycles over an interval that lies below
\* other rows renumber it upwards without end).
MaxSeq == MaxStatements + 1

\* ------------------------------------------------------------- values
\* The tables of setup_connection.
Tables == {"tbl1", "tbl2"}

\* A column value as SQLite stores it: an INTEGER or a TEXT (a sequence of
\* one-character strings).
IntV(n) == [type |-> "integer", int |-> n, text |-> <<>>]
TextV(s) == [type |-> "text", int |-> 0, text |-> s]

\* The values the caller writes: 23 (the tests' value) and the text  o'k .
Values == {IntV(23), TextV(<<"o", "'", "k">>)}

\* Option<i32>::None of Undo.freeze.  Rust orders None below every Some(_).
None == -2

Digit == <<"0", "1", "2", "3", "4", "5", "6", "7", "8", "9">>

RECURSIVE IntToText(_)
\* Decimal text of a non-negative integer: i32::to_string and SQLite's
\* '...'||new.rowid conversion.
IntToText(n) ==
    IF n < 10 THEN <<Digit[n + 1]>>
    ELSE IntToText(n \div 10) \o <<Digit[(n % 10) + 1]>>

DigitValue(c) == CHOOSE d \in 0..9 : Digit[d + 1] = c

RECURSIVE TextToInt(_)
\* The integer a decimal literal denotes, as the SQL parser reads it.
TextToInt(s) ==
    IF Len(s) = 0 THEN 0
    ELSE 10 * TextToInt(SubSeq(s, 1, Len(s) - 1)) + DigitValue(s[Len(s)])

RECURSIVE Escape(_)
\* Every ' of a text doubled.
Escape(s) ==
    IF Len(s) = 0 THEN <<>>
    ELSE (IF Head(s) = "'" THEN <<"'", "'">> ELSE <<Head(s)>>) \o Escape(Tail(s))

RECURSIVE Unescape(_)
\* Inverse reading of a string literal's body: '' is one '.
Unescape(s) ==
    IF Len(s) = 0 THEN <<>>
    ELSE IF Head(s) = "'" /\ Len(s) >= 2 /\ s[2] = "'"
         THEN <<"'">> \o Unescape(SubSeq(s, 3, Len(s)))
         ELSE <<Head(s)>> \o Unescape(Tail(s))

\* SQLite's quote(): the literal a trigger writes into the compensating
\* statement for old.<column>.
quote(v) ==
    IF v.type = "integer" THEN IntToText(v.int)
    ELSE <<"'">> \o Escape(v.text) \o <<"'">>

\* The value a literal of a replayed statement evaluates to.
ParseLiteral(lit) ==
    IF Len(lit) >= 2 /\ Head(lit) = "'"
    THEN TextV(Unescape(SubSeq(lit, 2, Len(lit) - 1)))
    ELSE IntV(TextToInt(lit))

\* ------------------------------------------------------------- database
\* A table is a function from the rowids present to the row's value; the
\* undolog is a function from the seqs present to the sql text, kept as the
\* record [op, tbl, rowid, lit] of the parts the trigger concatenates.
EmptyFn == [x \in {} |-> 0]

MaxKey(f) == IF DOMAIN f = {} THEN 0
             ELSE CHOOSE m \in DOMAIN f : \A k \in DOMAIN f : k <= m

\* SELECT coalesce(max(seq),0) FROM undolog
max_seq(log) == MaxKey(log)

\* INSERT INTO undolog VALUES(NULL, sql): seq is an INTEGER PRIMARY KEY
\* without AUTOINCREMENT, so NULL takes max(seq)+1.
LogAppend(log, sql) == log @@ ((max_seq(log) + 1) :> sql)

Restrict(f, S) == [x \in S |-> f[x]]

\* The three statements the triggers of _create_triggers write.
DeleteSql(t, r) ==
    [op |-> "DELETE", tbl |-> t, rowid |-> IntToText(r), lit |-> <<>>]
UpdateSql(t, r, old) ==
    [op |-> "UPDATE", tbl |-> t, rowid |-> IntToText(r), lit |-> quote(old)]
InsertSql(t, r, old) ==
    [op |-> "INSERT", tbl |-> t, rowid |-> IntToText(r), lit |-> quote(old)]

TriggerName(t, k) == <<t, k>>

\* A database state: the user tables, the undolog rows, whether the undolog
\* table exists, and the temp triggers installed.
Db(tb, log, trg) == [tables |-> tb, undolog |-> log, triggers |-> trg, ok |-> TRUE]

\* INSERT INTO t(rowid, col) VALUES(r, v): fails when rowid r is taken;
\* trigger _t_it (AFTER INSERT) logs the DELETE.
SqlInsert(db, t, r, v) ==
    IF r \in DOMAIN db.tables[t] THEN [db EXCEPT !.ok = FALSE]
    ELSE [db EXCEPT
            !.tables[t] = db.tables[t] @@ (r :> v),
            !.undolog = IF TriggerName(t, "it") \in db.triggers
                        THEN LogAppend(db.undolog, DeleteSql(t, r))
                        ELSE db.undolog]

\* UPDATE t SET col=v WHERE rowid=r: no row, no change and no trigger;
\* trigger _t_ut (AFTER UPDATE) logs the UPDATE back to old.col.
SqlUpdate(db, t, r, v) ==
    IF r \notin DOMAIN db.tables[t] THEN db
    ELSE [db EXCEPT
            !.tables[t] = [db.tables[t] EXCEPT ![r] = v],
            !.undolog = IF TriggerName(t, "ut") \in db.triggers
                        THEN LogAppend(db.undolog, UpdateSql(t, r, db.tables[t][r]))
                        ELSE db.undolog]

\* DELETE FROM t WHERE rowid=r: no row, no change and no trigger; trigger
\* _t_dt (BEFORE DELETE) logs the INSERT of the old row.
SqlDelete(db, t, r) ==
    IF r \notin DOMAIN db.tables[t] THEN db
    ELSE [db EXCEPT
            !.tables[t] = Restrict(db.tables[t], DOMAIN db.tables[t] \ {r}),
            !.undolog = IF TriggerName(t, "dt") \in db.triggers
                        THEN LogAppend(db.undolog, InsertSql(t, r, db.tables[t][r]))
                        ELSE db.undolog]

\* self.db.execute(&sql, []) of one compensating statement.
Execute(db, sql) ==
    LET r == TextToInt(sql.rowid) IN
    CASE sql.op = "DELETE" -> SqlDelete(db, sql.tbl, r)
      [] sql.op = "UPDATE" -> SqlUpdate(db, sql.tbl, r, ParseLiteral(sql.lit))
      [] sql.op = "INSERT" -> SqlInsert(db, sql.tbl, r, ParseLiteral(sql.lit))

RECURSIVE ExecuteAll(_, _)
\* for sql in sqllist { self.db.execute(&sql, [])?; }: stops at the first
\* failure, keeping what the earlier statements did.
ExecuteAll(db, sqllist) ==
    IF Len(sqllist) = 0 \/ ~db.ok THEN db
    ELSE ExecuteAll(Execute(db, Head(sqllist)), Tail(sqllist))

\* ------------------------------------------------------------- state
VARIABLES
    active,          \* Undo.active
    undostack,       \* Undo.undostack: sequence of <<begin, end>>, top last
    redostack,       \* Undo.redostack
    firstlog,        \* Undo.firstlog
    freeze,          \* Undo.freeze: None, -1 or the sentinel k >= 0
    tables,          \* contents of tbl1 and tbl2: rowid -> value
    undolog,         \* rows of the temp table undolog: seq -> sql
    undolog_exists,  \* whether the temp table undolog exists
    triggers,        \* the temp triggers of sqlite_temp_schema
    intxn,           \* the connection is inside the BEGIN of a failed _step
    lastOp,          \* the call made last
    result,          \* what it returned: "Ok", "Err", or "panic"
    pre,             \* the state in which the last engine call was made
    pre2,            \* at a redo right after an Ok undo: the state before that undo
    appended,        \* a trigger logged a row since the last activate/barrier/undo/redo
    frzwin,          \* "open": frozen, and only mutations and barriers since freeze()
    frzlog,          \* the undolog rows at that freeze()
    resume,          \* "open": only mutations since the unfreeze() that ended a freeze
    resumeRows,      \* the seqs logged since that unfreeze()
    linear,          \* since activate: no freeze(), no undo()/redo() over unbarriered rows
    nstmt,           \* the number of statements the caller has issued
    snaps,           \* reference model: the list of table snapshots
    cursor,          \* reference model: the position in snaps
    step,            \* the position inside _step and its locals
    recovery,        \* how far the caller is in recovering from a failed step
    unbarriered      \* the log rows no barrier has seen: still open, or dropped by a step

prog == <<active, undostack, redostack, firstlog, freeze, tables, undolog,
          undolog_exists, triggers, intxn>>
hist == <<lastOp, result, pre, pre2, appended, frzwin, frzlog, resume, resumeRows, linear>>
budget == <<nstmt>>
ref == <<snaps, cursor>>
vars == <<prog, hist, budget, ref, step, recovery, unbarriered>>

\* The program state as one record (with whether a row was logged since the
\* last activate/barrier/undo/redo).
Now ==
    [active |-> active, undostack |-> undostack, redostack |-> redostack,
     firstlog |-> firstlog, freeze |-> freeze, tables |-> tables,
     undolog |-> undolog, undolog_exists |-> undolog_exists,
     triggers |-> triggers, intxn |-> intxn, appended |-> appended]

\* Undo::new() on the connection of setup_connection (both tables empty, no
\* temp table, no trigger).
NewState ==
    [active |-> FALSE, undostack |-> <<>>, redostack |-> <<>>,
     firstlog |-> 1, freeze |-> None, tables |-> [t \in Tables |-> EmptyFn],
     undolog |-> EmptyFn, undolog_exists |-> FALSE,
     triggers |-> {}, intxn |-> FALSE, appended |-> FALSE]

NoPre == NewState

\* No row logged since the last activate, barrier, undo or redo, and no
\* row passed over by an undo or redo.
NoneOpen == [open |-> {}, dropped |-> EmptyFn]

\* No step has failed, or the caller left the recovery sequence.
NoRecovery == [phase |-> "none", tables |-> [t \in Tables |-> EmptyFn]]

\* No _step is under way.
Idle ==
    [pc |-> "idle", v1 |-> "", v2 |-> "", op |-> <<0, 0>>, log0 |-> EmptyFn,
     sqllist |-> <<>>, executed |-> <<>>, deleted |-> FALSE, reset |-> FALSE,
     end |-> 0, pushed |-> FALSE]

Init ==
    /\ active = NewState.active
    /\ undostack = NewState.undostack
    /\ redostack = NewState.redostack
    /\ firstlog = NewState.firstlog
    /\ freeze = NewState.freeze
    /\ tables = NewState.tables
    /\ undolog = NewState.undolog
    /\ undolog_exists = NewState.undolog_exists
    /\ triggers = NewState.triggers
    /\ intxn = NewState.intxn
    /\ appended = NewState.appended
    /\ lastOp = "new"
    /\ result = "Ok"
    /\ pre = NoPre
    /\ pre2 = NoPre
    /\ frzwin = "none"
    /\ frzlog = EmptyFn
    /\ resume = "none"
    /\ resumeRows = {}
    /\ linear = FALSE
    /\ nstmt = 0
    /\ snaps = <<>>
    /\ cursor = 0
    /\ step = Idle
    /\ recovery = NoRecovery
    /\ unbarriered = NoneOpen

\* A thread that panicked makes no further call.
Running == result # "panic"

\* The tables whose triggers are installed.
Registered == {t \in Tables : TriggerName(t, "it") \in triggers}

\* ------------------------------------------------------------- helpers
\* The query without its +1.
_start_interval_NoPlusOne(log) == max_seq(log)

\* SELECT coalesce(max(seq),0)+1 FROM undolog: the value _start_interval
\* stores in firstlog.
_start_interval(log) == max_seq(log) + 1

RECURSIVE Descending(_)
Descending(S) ==
    IF S = {} THEN <<>>
    ELSE LET m == CHOOSE x \in S : \A y \in S : y <= x
         IN <<m>> \o Descending(S \ {m})

\* The seqs of the rows WHERE seq>=begin AND seq<=end.
InRange(log, begin, end) == {s \in DOMAIN log : begin <= s /\ s <= end}

\* The same rows in ascending seq order.
SqlList_Ascending(log, begin, end) ==
    LET order == Descending(InRange(log, begin, end))
    IN [i \in 1..Len(order) |-> log[order[Len(order) + 1 - i]]]

\* SELECT sql FROM undolog WHERE seq>=begin AND seq<=end ORDER BY seq DESC
SqlList(log, begin, end) ==
    LET order == Descending(InRange(log, begin, end))
    IN [i \in 1..Len(order) |-> log[order[i]]]

\* DELETE FROM undolog WHERE seq>=begin
DeleteRange_FromBegin(log, begin, end) ==
    Restrict(log, {s \in DOMAIN log : s < begin})

\* DELETE FROM undolog WHERE seq>=begin AND seq<=end
DeleteRange(log, begin, end) ==
    Restrict(log, DOMAIN log \ InRange(log, begin, end))

\* DELETE FROM undolog WHERE seq>=freeze
DeleteFrozen_Inclusive(log, k) == Restrict(log, {s \in DOMAIN log : ~(s >= k)})

\* DELETE FROM undolog WHERE seq>freeze
DeleteFrozen(log, k) == Restrict(log, {s \in DOMAIN log : ~(s > k)})

\* The end without the clamp.
BarrierEnd_Unclamped(log, frz) == max_seq(log)

\* barrier's end: max(seq), clamped to the sentinel while frozen.
BarrierEnd(log, frz) ==
    LET end == max_seq(log)
    IN IF frz >= 0 /\ end > frz THEN frz ELSE end

\* A barrier that never touches the redo stack.
BarrierRedo_Kept(begin, first, redo) == redo

\* What barrier leaves on the redo stack: untouched when no row was logged
\* (begin == firstlog), emptied otherwise.
BarrierRedo(begin, first, redo) == IF begin = first THEN redo ELSE <<>>

Push(stack, op) == Append(stack, op)
\* A pop that leaves the interval on the stack.
Pop_Keep(stack) == stack

Pop(stack) == SubSeq(stack, 1, Len(stack) - 1)
Top(stack) == stack[Len(stack)]

\* _create_triggers without the BEFORE DELETE trigger.
CreatedTriggers_NoDelete(args) ==
    {TriggerName(args[i], k) : i \in 1..Len(args), k \in {"it", "ut"}}

\* The triggers _create_triggers installs for the tables of args.
CreatedTriggers(args) ==
    {TriggerName(args[i], k) : i \in 1..Len(args), k \in {"it", "ut", "dt"}}

\* A _drop_triggers that drops nothing.
DroppedTriggers_None(trg) == {}

\* The triggers _drop_triggers drops: every temp trigger of the connection
\* (the name filter is commented out).
DroppedTriggers(trg) == trg

\* ------------------------------------------------------------- bookkeeping
\* What every call records about itself: its name, its result, the state it
\* was made in, and the windows the claims speak of.
Called(op, res, p, p2, app, fw, fl, rs, rr, lin) ==
    /\ lastOp' = op
    /\ result' = res
    /\ pre' = p
    /\ pre2' = p2
    /\ appended' = app
    /\ frzwin' = fw
    /\ frzlog' = fl
    /\ resume' = rs
    /\ resumeRows' = rr
    /\ linear' = lin

\* ------------------------------------------------------------- the caller's SQL
\* One row-level statement of the caller on a user table, with whatever the
\* installed triggers log for it.
Statement(op, db) ==
    /\ Running
    /\ db.ok
    /\ nstmt < MaxStatements
    /\ max_seq(db.undolog) <= MaxSeq
    /\ nstmt' = nstmt + 1
    /\ tables' = db.tables
    /\ undolog' = db.undolog
    /\ UNCHANGED <<active, undostack, redostack, firstlog, freeze,
                   undolog_exists, triggers, intxn>>
    /\ Called(op, "Ok", NoPre, NoPre,
              appended \/ db.undolog # undolog,
              IF frzwin = "open" THEN "open" ELSE "none",
              IF frzwin = "open" THEN frzlog ELSE EmptyFn,
              IF resume = "open" THEN "open" ELSE "none",
              IF resume = "open"
              THEN resumeRows \cup (DOMAIN db.undolog \ DOMAIN undolog)
              ELSE {},
              linear)

\* INSERT INTO t VALUES(v): the rowid is max(rowid)+1.
UserInsert(t, v) ==
    /\ Statement("INSERT", SqlInsert(Db(tables, undolog, triggers), t,
                                     MaxKey(tables[t]) + 1, v))

\* UPDATE t SET col=v WHERE rowid=r, for a row that exists.
UserUpdate(t, r, v) ==
    /\ r \in DOMAIN tables[t]
    /\ Statement("UPDATE", SqlUpdate(Db(tables, undolog, triggers), t, r, v))

\* DELETE FROM t WHERE rowid=r, for a row that exists.
UserDelete(t, r) ==
    /\ r \in DOMAIN tables[t]
    /\ Statement("DELETE", SqlDelete(Db(tables, undolog, triggers), t, r))

\* ------------------------------------------------------------- the engine
\* The table lists activate is called with.
ActivateArgs == {<<"tbl1">>, <<"tbl1", "tbl2">>}

\* An activate without the early return for an active engine.
activate_Unguarded(args) ==
    /\ Running
    /\ undolog_exists' = TRUE
    /\ undolog' = EmptyFn
    /\ triggers' = triggers \cup CreatedTriggers(args)
    /\ undostack' = <<>>
    /\ redostack' = <<>>
    /\ active' = TRUE
    /\ freeze' = -1
    /\ firstlog' = _start_interval(EmptyFn)
    /\ UNCHANGED <<tables, intxn>>
    /\ Called("activate", "Ok", Now, NoPre, FALSE, "none", EmptyFn, "none", {}, TRUE)

activate(args) ==
    /\ Running
    /\ IF active
       THEN /\ UNCHANGED prog
            /\ Called("activate", "Ok", Now, NoPre, appended, "none", EmptyFn, "none", {}, linear)
       ELSE /\ undolog_exists' = TRUE
            /\ undolog' = EmptyFn
            /\ triggers' = triggers \cup CreatedTriggers(args)
            /\ undostack' = <<>>
            /\ redostack' = <<>>
            /\ active' = TRUE
            /\ freeze' = -1
            /\ firstlog' = _start_interval(EmptyFn)
            /\ UNCHANGED <<tables, intxn>>
            /\ Called("activate", "Ok", Now, NoPre, FALSE, "none", EmptyFn, "none", {}, TRUE)

deactivate ==
    /\ Running
    /\ IF ~active
       THEN /\ UNCHANGED prog
            /\ Called("deactivate", "Ok", Now, NoPre, appended, "none", EmptyFn, "none", {}, linear)
       ELSE /\ triggers' = triggers \ DroppedTriggers(triggers)
            /\ undolog_exists' = FALSE
            /\ undolog' = EmptyFn
            /\ undostack' = <<>>
            /\ redostack' = <<>>
            /\ active' = FALSE
            /\ freeze' = -1
            /\ UNCHANGED <<firstlog, tables, intxn>>
            /\ Called("deactivate", "Ok", Now, NoPre, FALSE, "none", EmptyFn, "none", {}, FALSE)

\* freeze(): a no-op for None and for a sentinel >= 0; otherwise the query
\* on undolog fails when the table is gone, and else sets the sentinel.
FreezeResult == IF freeze # None /\ ~(freeze >= 0) /\ ~undolog_exists THEN "Err" ELSE "Ok"

\* A freeze() that takes a new sentinel even when already frozen.
FreezeValue_Refreeze ==
    IF freeze = None \/ ~undolog_exists THEN freeze
    ELSE max_seq(undolog)

FreezeValue ==
    IF freeze = None \/ freeze >= 0 \/ ~undolog_exists THEN freeze
    ELSE max_seq(undolog)

Freeze ==
    /\ Running
    /\ freeze' = FreezeValue
    /\ UNCHANGED <<active, undostack, redostack, firstlog, tables, undolog,
                   undolog_exists, triggers, intxn>>
    /\ Called("freeze", FreezeResult, Now, NoPre, appended,
              IF FreezeValue # freeze THEN "open" ELSE "none",
              IF FreezeValue # freeze THEN undolog ELSE EmptyFn,
              "none", {},
              linear /\ FreezeValue = freeze)

\* unfreeze(): a no-op for None and for a sentinel < 0; otherwise deletes the
\* rows above the sentinel and resets it.
Unfreeze ==
    /\ Running
    /\ IF freeze = None \/ freeze < 0
       THEN /\ UNCHANGED prog
            /\ Called("unfreeze", "Ok", Now, NoPre, appended, "none", EmptyFn, "none", {}, linear)
       ELSE /\ undolog' = DeleteFrozen(undolog, freeze)
            /\ freeze' = -1
            /\ UNCHANGED <<active, undostack, redostack, firstlog, tables,
                           undolog_exists, triggers, intxn>>
            /\ Called("unfreeze", "Ok", Now, NoPre, appended,
                      IF frzwin = "open" THEN "ended" ELSE "none",
                      IF frzwin = "open" THEN frzlog ELSE EmptyFn,
                      "open", {}, linear)

barrier ==
    /\ Running
    /\ IF ~active
       THEN /\ UNCHANGED prog
            /\ Called("barrier", "Ok", Now, NoPre, appended, "none", EmptyFn, "none", {}, linear)
       ELSE LET end == BarrierEnd(undolog, freeze)
                begin == firstlog
            IN /\ firstlog' = _start_interval(undolog)
               /\ undostack' = (IF begin = firstlog' THEN undostack
                                ELSE Push(undostack, <<begin, end>>))
               /\ redostack' = BarrierRedo(begin, firstlog', redostack)
               /\ UNCHANGED <<active, freeze, tables, undolog, undolog_exists,
                              triggers, intxn>>
               /\ Called("barrier", "Ok", Now, NoPre, FALSE,
                         IF frzwin = "open" THEN "open" ELSE "none",
                         IF frzwin = "open" THEN frzlog ELSE EmptyFn,
                         IF resume = "open" THEN "closed" ELSE "none",
                         IF resume = "open" THEN resumeRows ELSE {},
                         linear)

\* _step after a successful pop, as the record of what it leaves behind:
\* BEGIN, the SELECT, the DELETE, firstlog, the replay, COMMIT, the push on
\* the other stack and _start_interval; an Err return keeps what was done.
StepOutcome(op, source, target) ==
    LET begin == op[1]
        end == op[2]
        sqllist == SqlList(undolog, begin, end)
        log1 == DeleteRange(undolog, begin, end)
        first == _start_interval(log1)
        db == ExecuteAll(Db(tables, log1, triggers), sqllist)
    IN IF intxn
       THEN [result |-> "Err", source |-> Pop(source), target |-> target,
             firstlog |-> firstlog, tables |-> tables, undolog |-> undolog,
             intxn |-> TRUE]
       ELSE IF ~undolog_exists
       THEN [result |-> "Err", source |-> Pop(source), target |-> target,
             firstlog |-> firstlog, tables |-> tables, undolog |-> undolog,
             intxn |-> TRUE]
       ELSE IF ~db.ok
       THEN [result |-> "Err", source |-> Pop(source), target |-> target,
             firstlog |-> first, tables |-> db.tables, undolog |-> db.undolog,
             intxn |-> TRUE]
       ELSE [result |-> "Ok", source |-> Pop(source),
             target |-> Push(target, <<first, max_seq(db.undolog)>>),
             firstlog |-> _start_interval(db.undolog),
             tables |-> db.tables, undolog |-> db.undolog, intxn |-> FALSE]

\* _step(v1, v2): pop().unwrap() panics on an empty stack.
_step(v1, v2) ==
    LET source == IF v1 = "undostack" THEN undostack ELSE redostack
        target == IF v2 = "undostack" THEN undostack ELSE redostack
        name == IF v1 = "undostack" THEN "undo" ELSE "redo"
    IN /\ Running
       /\ IF source = <<>>
          THEN /\ UNCHANGED prog
               /\ Called(name, "panic", Now, NoPre, appended, "none", EmptyFn, "none", {}, linear)
          ELSE LET out == StepOutcome(Top(source), source, target)
               IN /\ max_seq(out.undolog) <= MaxSeq
                  /\ undostack' = (IF v1 = "undostack" THEN out.source ELSE out.target)
                  /\ redostack' = (IF v1 = "undostack" THEN out.target ELSE out.source)
                  /\ firstlog' = out.firstlog
                  /\ tables' = out.tables
                  /\ undolog' = out.undolog
                  /\ intxn' = out.intxn
                  /\ UNCHANGED <<active, freeze, undolog_exists, triggers>>
                  /\ Called(name, out.result, Now,
                            IF name = "redo" /\ lastOp = "undo" /\ result = "Ok"
                            THEN pre ELSE NoPre,
                            IF out.result = "Ok" THEN FALSE ELSE appended,
                            "none", EmptyFn, "none", {},
                            linear /\ ~appended)

undo == _step("undostack", "redostack")

redo == _step("redostack", "undostack")

\* ------------------------------------------------------------- specification
Next ==
    \/ \E t \in Tables, v \in Values : UserInsert(t, v) /\ UNCHANGED <<ref, step, recovery, unbarriered>>
    \/ \E t \in Tables : \E r \in DOMAIN tables[t], v \in Values :
          UserUpdate(t, r, v) /\ UNCHANGED <<ref, step, recovery, unbarriered>>
    \/ \E t \in Tables : \E r \in DOMAIN tables[t] : UserDelete(t, r) /\ UNCHANGED <<ref, step, recovery, unbarriered>>
    \/ \E args \in ActivateArgs : activate(args) /\ UNCHANGED <<budget, ref, step, recovery, unbarriered>>
    \/ deactivate /\ UNCHANGED <<budget, ref, step, recovery, unbarriered>>
    \/ Freeze /\ UNCHANGED <<budget, ref, step, recovery, unbarriered>>
    \/ Unfreeze /\ UNCHANGED <<budget, ref, step, recovery, unbarriered>>
    \/ barrier /\ UNCHANGED <<budget, ref, step, recovery, unbarriered>>
    \/ undo /\ UNCHANGED <<budget, ref, step, recovery, unbarriered>>
    \/ redo /\ UNCHANGED <<budget, ref, step, recovery, unbarriered>>

Spec == Init /\ [][Next]_vars

\* ------------------------------------------------------------- linear history
\* The reference model of a linear history: snaps is the list of snapshots of
\* the registered tables and cursor the position of the current one.
Snapshot == [t \in Registered |-> tables[t]]

\* activate(T) on the inactive engine: the history starts with one snapshot.
LinearActivate(args) ==
    /\ ~active
    /\ activate(args)
    /\ snaps' = <<[t \in {args[i] : i \in 1..Len(args)} |-> tables[t]]>>
    /\ cursor' = 1

\* A barrier that follows at least one logged row appends a snapshot after
\* the cursor and discards the later ones.
LinearBarrier ==
    /\ active
    /\ barrier
    /\ snaps' = (IF appended THEN Append(SubSeq(snaps, 1, cursor), Snapshot) ELSE snaps)
    /\ cursor' = (IF appended THEN cursor + 1 ELSE cursor)

\* undo, called after a barrier and with a non-empty undo stack.
LinearUndo ==
    /\ ~appended
    /\ undostack # <<>>
    /\ undo
    /\ cursor' = cursor - 1
    /\ UNCHANGED snaps

\* redo, called after a barrier and with a non-empty redo stack.
LinearRedo ==
    /\ ~appended
    /\ redostack # <<>>
    /\ redo
    /\ cursor' = cursor + 1
    /\ UNCHANGED snaps

\* deactivate() on the active engine ends the history.
LinearDeactivate ==
    /\ active
    /\ deactivate
    /\ snaps' = <<>>
    /\ cursor' = 0

\* Runs in which freeze() is never called, barrier() is called after the
\* last logged mutation before every undo()/redo(), and undo()/redo() find
\* their stack non-empty.
LinearNext ==
    \/ \E t \in Tables, v \in Values : UserInsert(t, v) /\ UNCHANGED <<ref, step, recovery, unbarriered>>
    \/ \E t \in Tables : \E r \in DOMAIN tables[t], v \in Values :
          UserUpdate(t, r, v) /\ UNCHANGED <<ref, step, recovery, unbarriered>>
    \/ \E t \in Tables : \E r \in DOMAIN tables[t] : UserDelete(t, r) /\ UNCHANGED <<ref, step, recovery, unbarriered>>
    \/ \E args \in ActivateArgs : LinearActivate(args) /\ UNCHANGED <<budget, step, recovery, unbarriered>>
    \/ LinearDeactivate /\ UNCHANGED <<budget, step, recovery, unbarriered>>
    \/ LinearBarrier /\ UNCHANGED <<budget, step, recovery, unbarriered>>
    \/ LinearUndo /\ UNCHANGED <<budget, step, recovery, unbarriered>>
    \/ LinearRedo /\ UNCHANGED <<budget, step, recovery, unbarriered>>

SpecLinear == Init /\ [][LinearNext]_vars

\* C1: under SpecLinear, after every engine operation the registered tables
\* equal the snapshot at the cursor, the undo stack holds as many intervals
\* as there are snapshots before the cursor, and the redo stack as many as
\* there are after it.
C1_RefinesLinearHistory ==
    (active /\ lastOp \in {"activate", "barrier", "undo", "redo"}) =>
        /\ result = "Ok"
        /\ cursor \in 1..Len(snaps)
        /\ Snapshot = snaps[cursor]
        /\ Len(undostack) = cursor - 1
        /\ Len(redostack) = Len(snaps) - cursor

\* Two barriered changes, both undone.
C1_Witness ==
    /\ lastOp = "undo"
    /\ cursor = 1
    /\ Len(snaps) = 3
    /\ snaps[1] # snaps[2]
    /\ snaps[2] # snaps[3]
    /\ Len(redostack) = 2

\* ------------------------------------------------------------- round trip
\* The last two calls were undo() and then redo(), both returning Ok; pre2 is
\* the state before the undo() and pre the state between the two.
UndoThenRedo ==
    /\ lastOp = "redo"
    /\ result = "Ok"
    /\ pre2.undostack # <<>>

\* The number of undolog rows an interval covers.
Covered(log, op) == Cardinality(InRange(log, op[1], op[2]))

\* C2: undo() immediately followed by redo(), both Ok, leaves every
\* registered table with the contents it had before the undo().
C2_RoundTripTables ==
    UndoThenRedo => \A t \in Registered : tables[t] = pre2.tables[t]

\* A round trip whose undo changed a table, made while frozen and with a row
\* logged after the last barrier.
C2_Witness ==
    /\ UndoThenRedo
    /\ pre.tables # pre2.tables
    /\ pre2.appended
    /\ freeze >= 0

\* C3 as stated: after undo() then redo() the redo stack is as before, the
\* undo stack has the same length and the same entries below the top, and the
\* new top covers as many undolog rows as the interval undo() popped.
C3_RoundTripStacks ==
    UndoThenRedo =>
        /\ redostack = pre2.redostack
        /\ Len(undostack) = Len(pre2.undostack)
        /\ Pop(undostack) = Pop(pre2.undostack)
        /\ Covered(undolog, Top(undostack)) = Covered(pre2.undolog, Top(pre2.undostack))

\* C3 amended: when freeze() has not been called since activate() and
\* barrier() was called after the last mutation before every undo()/redo(),
\* undo() then redo() leaves the redo stack as before, the undo stack with
\* the same length and the same entries below the top, and a top that covers
\* as many undolog rows as the interval undo() popped.
C3_RoundTripStacksLinear ==
    (UndoThenRedo /\ linear) =>
        /\ redostack = pre2.redostack
        /\ Len(undostack) = Len(pre2.undostack)
        /\ SubSeq(undostack, 1, Len(undostack) - 1)
             = SubSeq(pre2.undostack, 1, Len(pre2.undostack) - 1)
        /\ Cardinality(InRange(undolog, Top(undostack)[1], Top(undostack)[2]))
             = Cardinality(InRange(pre2.undolog, Top(pre2.undostack)[1],
                                   Top(pre2.undostack)[2]))

\* A round trip from a state with intervals on both stacks.
C3_Witness ==
    /\ UndoThenRedo
    /\ linear
    /\ redostack # <<>>
    /\ Len(undostack) = 1
    /\ Covered(undolog, Top(undostack)) = 1
    /\ pre.tables # tables

\* ------------------------------------------------------------- underflow
\* The last call was undo() or redo() on an empty source stack.
Underflow ==
    \/ lastOp = "undo" /\ pre.undostack = <<>>
    \/ lastOp = "redo" /\ pre.redostack = <<>>

\* C4 as stated: undo() or redo() on an empty stack returns normally and
\* changes nothing.
C4_UnderflowIsNoOp ==
    Underflow => (result = "Ok" /\ Now = pre)

\* ------------------------------------------------------------- barrier
\* The last call was barrier() on an active engine.
AfterBarrier == lastOp = "barrier" /\ pre.active

\* C5 as stated: immediately after every barrier() on an active engine the
\* redo stack is empty.
C5_RedoEmptyAfterBarrier == AfterBarrier => redostack = <<>>

\* C5 amended: a barrier() that finds firstlog different from max(seq)+1
\* leaves the redo stack empty; one that finds them equal leaves the redo
\* stack as it was.
C5_RedoAfterBarrier ==
    AfterBarrier =>
        redostack = (IF pre.firstlog # max_seq(pre.undolog) + 1
                     THEN <<>> ELSE pre.redostack)

\* A barrier that emptied a non-empty redo stack.
C5_Witness ==
    /\ AfterBarrier
    /\ pre.redostack # <<>>
    /\ redostack = <<>>

\* C6: a barrier() that finds firstlog different from max(seq)+1 pushes
\* exactly <<firstlog, max(seq)>>, with the end clamped to the sentinel when
\* frozen below max(seq), empties the redo stack and sets firstlog to
\* max(seq)+1.
C6_BarrierPublishes ==
    (AfterBarrier /\ pre.firstlog # max_seq(pre.undolog) + 1) =>
        LET m == max_seq(pre.undolog)
            e == IF pre.freeze >= 0 /\ m > pre.freeze THEN pre.freeze ELSE m
        IN /\ undostack = Append(pre.undostack, <<pre.firstlog, e>>)
           /\ redostack = <<>>
           /\ firstlog = m + 1
           /\ undolog = pre.undolog

\* test_barrier_while_frozen: the barrier after one frozen insert that
\* follows interval <<1, 1>>.
C6_Witness ==
    /\ AfterBarrier
    /\ freeze = 1
    /\ undostack = <<<<1, 1>>, <<2, 1>>>>
    /\ max_seq(undolog) = 2

\* C7 as stated: barrier() on an active engine, with no row logged since the
\* last activate, barrier, undo or redo, leaves both stacks and firstlog
\* unchanged.
C7_BarrierIdempotent ==
    (AfterBarrier /\ ~pre.appended) =>
        /\ undostack = pre.undostack
        /\ redostack = pre.redostack
        /\ firstlog = pre.firstlog

\* ------------------------------------------------------------- freeze
\* The interval the last call pushed, if it pushed one.
PushedBy ==
    CASE lastOp = "barrier" /\ undostack # pre.undostack -> <<Top(undostack)>>
      [] lastOp = "undo" /\ result = "Ok" -> <<Top(redostack)>>
      [] lastOp = "redo" /\ result = "Ok" -> <<Top(undostack)>>
      [] OTHER -> <<>>

\* C8 as stated: no interval pushed by barrier, undo or redo while frozen at
\* k contains a log row with seq > k.
C8_FrozenRowsExcluded ==
    (lastOp \in {"barrier", "undo", "redo"} /\ pre.freeze >= 0) =>
        \A i \in 1..Len(PushedBy) :
            \A q \in InRange(undolog, PushedBy[i][1], PushedBy[i][2]) : q <= pre.freeze

\* C9: an unfreeze() that ends a window of only mutations and barriers
\* leaves the undolog as it was at the freeze(), i.e. without the rows above
\* the sentinel and with the others untouched, resets the sentinel and leaves
\* both stacks alone.
C9_UnfreezeDiscardsFrozenRows ==
    (lastOp = "unfreeze" /\ frzwin = "ended") =>
        /\ undolog = frzlog
        /\ undolog = Restrict(pre.undolog, {q \in DOMAIN pre.undolog : q <= pre.freeze})
        /\ freeze = -1
        /\ undostack = pre.undostack
        /\ redostack = pre.redostack

\* test_unfreeze in small: rows logged before the freeze, a frozen row and a
\* barrier in the window, then the unfreeze.
C9_Witness ==
    /\ lastOp = "unfreeze"
    /\ frzwin = "ended"
    /\ undolog # EmptyFn
    /\ DOMAIN pre.undolog # DOMAIN undolog
    /\ Len(undostack) = 2

\* C10 as stated, in the form a stale firstlog refutes: the barrier() that
\* follows an unfreeze() and n >= 1 rows logged since pushes one interval,
\* and that interval covers every one of those rows.
C10_RecordingResumes ==
    (AfterBarrier /\ resume = "closed" /\ resumeRows # {}) =>
        /\ Len(undostack) = Len(pre.undostack) + 1
        /\ resumeRows \subseteq InRange(undolog, Top(undostack)[1], Top(undostack)[2])

\* ------------------------------------------------------------- stack invariants
\* The intervals of both stacks.
Intervals == undostack \o redostack

\* C11 as stated: in every active state every interval <<b, e>> on either
\* stack has b <= e and firstlog > e.
C11_IntervalsNonEmpty ==
    active => \A i \in 1..Len(Intervals) :
                 /\ Intervals[i][1] <= Intervals[i][2]
                 /\ firstlog > Intervals[i][2]

\* C11 amended: the interval a barrier, undo or redo has just pushed has
\* e <= max(seq) < firstlog (its begin may exceed its end); and as long as
\* freeze() has not been called since activate() and barrier() was called
\* before every undo()/redo(), every interval on either stack has b <= e and
\* firstlog > e.
C11_IntervalsBelowFirstlog ==
    /\ Len(PushedBy) = 1 =>
           (PushedBy[1][2] <= max_seq(undolog) /\ max_seq(undolog) < firstlog)
    /\ (active /\ linear) =>
           \A i \in 1..Len(Intervals) :
               /\ Intervals[i][1] <= Intervals[i][2]
               /\ firstlog > Intervals[i][2]

\* An undo in a linear run that leaves intervals on both stacks.
C11_Witness ==
    /\ active /\ linear
    /\ lastOp = "undo" /\ result = "Ok"
    /\ undostack # <<>>
    /\ redostack # <<>>

\* C12 as stated: in every active state every seq within an interval of
\* either stack is the seq of a row present in undolog.
C12_IntervalRowsExist ==
    active => \A i \in 1..Len(Intervals) :
                 \A q \in Intervals[i][1]..Intervals[i][2] : q \in DOMAIN undolog

\* The seqs an interval spans.
Range(op) == op[1]..op[2]

\* Begins ascending from bottom to top, spans pairwise disjoint.
AscendingDisjoint(stack) ==
    \A i, j \in 1..Len(stack) :
        i < j => /\ stack[i][1] <= stack[j][1]
                 /\ Range(stack[i]) \cap Range(stack[j]) = {}

\* C13 as stated: in every active state the intervals of each stack are
\* pairwise disjoint with begins ascending from bottom to top, and no
\* interval of one stack overlaps an interval of the other.
C13_IntervalsOrderedDisjoint ==
    active =>
        /\ AscendingDisjoint(undostack)
        /\ AscendingDisjoint(redostack)
        /\ \A i \in 1..Len(undostack), j \in 1..Len(redostack) :
               Range(undostack[i]) \cap Range(redostack[j]) = {}

\* ------------------------------------------------------------- lifecycle
\* The triggers _create_triggers names: _<table>_it, _<table>_ut, _<table>_dt.
EngineTriggers == {TriggerName(t, k) : t \in Tables, k \in {"it", "ut", "dt"}}

\* C14: activate on an inactive engine returns Ok and ends active, with
\* freeze = -1, both stacks empty, the undolog empty and firstlog = 1;
\* deactivate on an active engine returns Ok and ends inactive, with
\* freeze = -1, both stacks empty, the undolog dropped and no engine trigger
\* left.
C14_LifecycleReset ==
    /\ (lastOp = "activate" /\ ~pre.active) =>
           /\ result = "Ok"
           /\ active
           /\ freeze = -1
           /\ undostack = <<>> /\ redostack = <<>>
           /\ undolog_exists /\ undolog = EmptyFn
           /\ firstlog = 1
    /\ (lastOp = "deactivate" /\ pre.active) =>
           /\ result = "Ok"
           /\ ~active
           /\ freeze = -1
           /\ undostack = <<>> /\ redostack = <<>>
           /\ ~undolog_exists
           /\ triggers \cap EngineTriggers = {}

\* A deactivate that discards a frozen engine with intervals on both stacks
\* and rows in the log.
C14_Witness ==
    /\ lastOp = "deactivate"
    /\ pre.active
    /\ pre.freeze >= 0
    /\ pre.undostack # <<>>
    /\ pre.redostack # <<>>
    /\ pre.undolog # EmptyFn
    /\ pre.firstlog > 1

\* C15: activate on an active engine, whatever its table list, and
\* deactivate on an inactive engine return Ok and change nothing.
C15_LifecycleIdempotent ==
    (\/ lastOp = "activate" /\ pre.active
     \/ lastOp = "deactivate" /\ ~pre.active) =>
        /\ result = "Ok"
        /\ Now = pre

\* An activate on a frozen engine that registered tbl1 only, with intervals
\* on both stacks and rows in the log.
C15_Witness ==
    /\ lastOp = "activate"
    /\ pre.active
    /\ Registered = {"tbl1"}
    /\ freeze >= 0
    /\ undostack # <<>>
    /\ redostack # <<>>
    /\ undolog # EmptyFn

\* ------------------------------------------------------------- step mechanics
\* The last call was an undo() or redo() that returned Ok.
StepDone == lastOp \in {"undo", "redo"} /\ result = "Ok"

\* The stack the last step popped, before the call and now.
SourceBefore == IF lastOp = "undo" THEN pre.undostack ELSE pre.redostack
SourceNow == IF lastOp = "undo" THEN undostack ELSE redostack

\* The stack the last step pushed onto, before the call and now.
TargetBefore == IF lastOp = "undo" THEN pre.redostack ELSE pre.undostack
TargetNow == IF lastOp = "undo" THEN redostack ELSE undostack

\* The rows of the log before the last step that lie outside the interval
\* it popped.
KeptRows ==
    LET op == Top(SourceBefore)
    IN Restrict(pre.undolog,
                {q \in DOMAIN pre.undolog : ~(op[1] <= q /\ q <= op[2])})

\* C16: a successful undo() (redo()) pops the top interval <<b, e>> of its
\* source stack, deletes exactly the rows with seq in b..e, and pushes on the
\* other stack the one interval <<b2, e2>> with b2 = 1 + the largest seq left
\* after the deletion and e2 = the largest seq after the replay; b2..e2 is
\* exactly the set of rows the replay logged, the other entries of both
\* stacks are unchanged and firstlog ends as e2 + 1.
C16_StepMechanics ==
    StepDone =>
        LET b2 == MaxKey(KeptRows) + 1
            e2 == MaxKey(undolog)
        IN /\ SourceNow = SubSeq(SourceBefore, 1, Len(SourceBefore) - 1)
           /\ TargetNow = Append(TargetBefore, <<b2, e2>>)
           /\ Restrict(undolog, {q \in DOMAIN undolog : q < b2}) = KeptRows
           /\ DOMAIN undolog \ DOMAIN KeptRows = b2..e2
           /\ firstlog = e2 + 1

\* A redo that replayed a row while rows outside its interval stayed in the
\* log and another interval stayed on each stack.
C16_Witness ==
    /\ StepDone
    /\ lastOp = "redo"
    /\ KeptRows # EmptyFn
    /\ DOMAIN undolog # DOMAIN KeptRows
    /\ pre.tables # tables
    /\ Len(undostack) >= 2

\* ------------------------------------------------------------- _step, statement by statement
\* The stack a name denotes.
StackOf(v) == IF v = "undostack" THEN undostack ELSE redostack

\* What a return from _step records: its result; an Ok return ends the
\* window of rows logged since the last activate/barrier/undo/redo.
StepReturn(res) ==
    /\ result' = res
    /\ appended' = (IF res = "Ok" THEN FALSE ELSE appended)
    /\ UNCHANGED <<lastOp, pre, pre2, frzwin, frzlog, resume, resumeRows, linear>>

\* match v1 { .. }.pop().unwrap(): panics on an empty stack, else pops.
StepPop(v1, v2) ==
    LET source == StackOf(v1)
        name == IF v1 = "undostack" THEN "undo" ELSE "redo"
    IN /\ Running
       /\ step.pc = "idle"
       /\ IF source = <<>>
          THEN /\ UNCHANGED <<prog, step>>
               /\ Called(name, "panic", Now, NoPre, appended, "none", EmptyFn, "none", {}, linear)
          ELSE /\ max_seq(StepOutcome(Top(source), source, StackOf(v2)).undolog) <= MaxSeq
               /\ undostack' = (IF v1 = "undostack" THEN Pop(undostack) ELSE undostack)
               /\ redostack' = (IF v1 = "redostack" THEN Pop(redostack) ELSE redostack)
               /\ step' = [Idle EXCEPT !.pc = "begin", !.v1 = v1, !.v2 = v2,
                                       !.op = Top(source), !.log0 = undolog]
               /\ UNCHANGED <<active, firstlog, freeze, tables, undolog,
                              undolog_exists, triggers, intxn>>
               /\ Called(name, "running", Now, NoPre, appended, "none", EmptyFn,
                         "none", {}, linear /\ ~appended)

\* self.db.execute("BEGIN", [])?: fails inside an open transaction.
StepBegin ==
    /\ step.pc = "begin"
    /\ IF intxn
       THEN /\ step' = Idle
            /\ StepReturn("Err")
            /\ UNCHANGED prog
       ELSE /\ intxn' = TRUE
            /\ step' = [step EXCEPT !.pc = "select"]
            /\ UNCHANGED <<active, undostack, redostack, firstlog, freeze, tables,
                           undolog, undolog_exists, triggers, hist>>

\* The SELECT of the interval's statements: fails when undolog is gone.
StepSelect ==
    /\ step.pc = "select"
    /\ UNCHANGED prog
    /\ IF ~undolog_exists
       THEN /\ step' = Idle
            /\ StepReturn("Err")
       ELSE /\ step' = [step EXCEPT !.pc = "delete",
                                    !.sqllist = SqlList(undolog, step.op[1], step.op[2])]
            /\ UNCHANGED hist

\* The DELETE of the interval's rows.
StepDelete ==
    /\ step.pc = "delete"
    /\ undolog' = DeleteRange(undolog, step.op[1], step.op[2])
    /\ step' = [step EXCEPT !.pc = "firstlog", !.deleted = TRUE]
    /\ UNCHANGED <<active, undostack, redostack, firstlog, freeze, tables,
                   undolog_exists, triggers, intxn, hist>>

\* self._undo.firstlog = coalesce(max(seq),0)+1
StepFirstlog ==
    /\ step.pc = "firstlog"
    /\ firstlog' = _start_interval(undolog)
    /\ step' = [step EXCEPT !.pc = "replay", !.reset = TRUE]
    /\ UNCHANGED <<active, undostack, redostack, freeze, tables, undolog,
                   undolog_exists, triggers, intxn, hist>>

\* One turn of for sql in sqllist { self.db.execute(&sql, [])?; }
StepReplay ==
    /\ step.pc = "replay"
    /\ step.sqllist # <<>>
    /\ LET db == Execute(Db(tables, undolog, triggers), Head(step.sqllist))
       IN IF ~db.ok
          THEN /\ step' = Idle
               /\ StepReturn("Err")
               /\ UNCHANGED prog
          ELSE /\ tables' = db.tables
               /\ undolog' = db.undolog
               /\ step' = [step EXCEPT !.sqllist = Tail(step.sqllist),
                                       !.executed = Append(step.executed,
                                                           Head(step.sqllist))]
               /\ UNCHANGED <<active, undostack, redostack, firstlog, freeze,
                              undolog_exists, triggers, intxn, hist>>

\* self.db.execute("COMMIT", [])? after the loop.
StepCommit ==
    /\ step.pc = "replay"
    /\ step.sqllist = <<>>
    /\ intxn' = FALSE
    /\ step' = [step EXCEPT !.pc = "end"]
    /\ UNCHANGED <<active, undostack, redostack, firstlog, freeze, tables,
                   undolog, undolog_exists, triggers, hist>>

\* let end = coalesce(max(seq),0); let begin = self._undo.firstlog;
StepEnd ==
    /\ step.pc = "end"
    /\ step' = [step EXCEPT !.pc = "push", !.end = max_seq(undolog)]
    /\ UNCHANGED <<prog, hist>>

\* match v2 { .. }.push((begin, end))
StepPush ==
    /\ step.pc = "push"
    /\ undostack' = (IF step.v2 = "undostack"
                     THEN Push(undostack, <<firstlog, step.end>>) ELSE undostack)
    /\ redostack' = (IF step.v2 = "redostack"
                     THEN Push(redostack, <<firstlog, step.end>>) ELSE redostack)
    /\ step' = [step EXCEPT !.pc = "start", !.pushed = TRUE]
    /\ UNCHANGED <<active, firstlog, freeze, tables, undolog, undolog_exists,
                   triggers, intxn, hist>>

\* self._start_interval()?; Ok(())
StepStart ==
    /\ step.pc = "start"
    /\ firstlog' = _start_interval(undolog)
    /\ step' = [step EXCEPT !.pc = "idle"]
    /\ StepReturn("Ok")
    /\ UNCHANGED <<active, undostack, redostack, freeze, tables, undolog,
                   undolog_exists, triggers, intxn>>

\* The engine with _step taken one statement at a time: the caller's thread
\* issues statements and calls only between steps.
StepNext ==
    \/ \E t \in Tables, v \in Values :
          step.pc = "idle" /\ UserInsert(t, v) /\ UNCHANGED <<ref, step, recovery, unbarriered>>
    \/ \E t \in Tables : \E r \in DOMAIN tables[t], v \in Values :
          step.pc = "idle" /\ UserUpdate(t, r, v) /\ UNCHANGED <<ref, step, recovery, unbarriered>>
    \/ \E t \in Tables : \E r \in DOMAIN tables[t] :
          step.pc = "idle" /\ UserDelete(t, r) /\ UNCHANGED <<ref, step, recovery, unbarriered>>
    \/ \E args \in ActivateArgs :
          step.pc = "idle" /\ activate(args) /\ UNCHANGED <<budget, ref, step, recovery, unbarriered>>
    \/ step.pc = "idle" /\ barrier /\ UNCHANGED <<budget, ref, step, recovery, unbarriered>>
    \/ \E v \in {<<"undostack", "redostack">>, <<"redostack", "undostack">>} :
          StepPop(v[1], v[2]) /\ UNCHANGED <<budget, ref, recovery, unbarriered>>
    \/ StepBegin /\ UNCHANGED <<budget, ref, recovery, unbarriered>>
    \/ StepSelect /\ UNCHANGED <<budget, ref, recovery, unbarriered>>
    \/ StepDelete /\ UNCHANGED <<budget, ref, recovery, unbarriered>>
    \/ StepFirstlog /\ UNCHANGED <<budget, ref, recovery, unbarriered>>
    \/ StepReplay /\ UNCHANGED <<budget, ref, recovery, unbarriered>>
    \/ StepCommit /\ UNCHANGED <<budget, ref, recovery, unbarriered>>
    \/ StepEnd /\ UNCHANGED <<budget, ref, recovery, unbarriered>>
    \/ StepPush /\ UNCHANGED <<budget, ref, recovery, unbarriered>>
    \/ StepStart /\ UNCHANGED <<budget, ref, recovery, unbarriered>>

SpecStep == Init /\ [][StepNext]_vars

\* The statements of the popped interval as the log held them at the pop, in
\* descending seq order.
Expected ==
    LET order == Descending({q \in DOMAIN step.log0 :
                               step.op[1] <= q /\ q <= step.op[2]})
    IN [i \in 1..Len(order) |-> step.log0[order[i]]]

\* C17: under SpecStep, at every point of a step the statements executed so
\* far are the first ones of the popped interval in descending seq order,
\* none is executed before the interval's rows are deleted and firstlog is
\* reset, and by the time the mirror interval is pushed every one of them
\* has been executed exactly once.
C17_ReplayOrdering ==
    /\ Len(step.executed) <= Len(Expected)
    /\ step.executed = SubSeq(Expected, 1, Len(step.executed))
    /\ step.executed # <<>> => (step.deleted /\ step.reset)
    /\ (step.deleted /\ ~step.reset /\ step.pc = "firstlog") =>
           \A q \in DOMAIN undolog : ~(step.op[1] <= q /\ q <= step.op[2])
    /\ step.pushed => step.executed = Expected

\* A step about to push its mirror interval after replaying two different
\* statements.
C17_Witness ==
    /\ step.pc = "push"
    /\ Len(step.executed) = 2
    /\ step.executed[1] # step.executed[2]
    /\ step.op[1] < step.op[2]

\* ------------------------------------------------------------- firstlog
\* C18 as stated: in every active state firstlog <= max(seq)+1, and
\* firstlog = max(seq)+1 when no row was logged since the last activate,
\* barrier, undo or redo.
C18_FirstlogTracksInterval ==
    active =>
        /\ firstlog <= max_seq(undolog) + 1
        /\ ~appended => firstlog = max_seq(undolog) + 1

\* ------------------------------------------------------------- freeze and unfreeze
\* C19 as stated: freeze() and unfreeze() on an inactive engine return Ok
\* and change nothing.
C19_InactiveFreezeIsNoOp ==
    (lastOp \in {"freeze", "unfreeze"} /\ ~pre.active) =>
        /\ result = "Ok"
        /\ Now = pre

\* C20: freeze() on an active, unfrozen engine returns Ok, sets the
\* sentinel to max(seq) and changes nothing else; freeze() on a frozen
\* engine and unfreeze() on an active unfrozen one return Ok and change
\* nothing; and no call of a frozen engine other than unfreeze() and
\* deactivate() changes the sentinel.
C20_FreezeSentinel ==
    /\ (lastOp = "freeze" /\ pre.active /\ pre.freeze < 0) =>
           /\ result = "Ok"
           /\ freeze = MaxKey(pre.undolog)
           /\ [Now EXCEPT !.freeze = pre.freeze] = pre
    /\ (lastOp = "freeze" /\ pre.active /\ pre.freeze >= 0) =>
           (result = "Ok" /\ Now = pre)
    /\ (lastOp = "unfreeze" /\ pre.active /\ pre.freeze < 0) =>
           (result = "Ok" /\ Now = pre)
    /\ (lastOp \in {"activate", "freeze", "barrier", "undo", "redo"}
          /\ pre.active /\ pre.freeze >= 0) =>
           freeze = pre.freeze

\* A second freeze() after a row was logged above the sentinel.
C20_Witness ==
    /\ lastOp = "freeze"
    /\ pre.active
    /\ pre.freeze >= 0
    /\ MaxKey(undolog) > freeze

\* ------------------------------------------------------------- the caller's own triggers
\* A temporary trigger of the caller's, named outside the engine's
\* convention, whose body touches neither a user table nor undolog:
\* CREATE TEMP TRIGGER audit AFTER INSERT ON tbl1 BEGIN SELECT 1; END
UserTrigger == TriggerName("audit", "")

\* The caller creates its trigger (once: a second CREATE would fail).
UserCreateTrigger ==
    /\ Running
    /\ UserTrigger \notin triggers
    /\ triggers' = triggers \cup {UserTrigger}
    /\ UNCHANGED <<active, undostack, redostack, firstlog, freeze, tables,
                   undolog, undolog_exists, intxn>>
    /\ Called("CREATE TRIGGER", "Ok", NoPre, NoPre, appended,
              IF frzwin = "open" THEN "open" ELSE "none",
              IF frzwin = "open" THEN frzlog ELSE EmptyFn,
              IF resume = "open" THEN "open" ELSE "none",
              IF resume = "open" THEN resumeRows ELSE {},
              linear)

\* The engine on a connection on which the caller also creates a temporary
\* trigger of its own.
TriggerNext ==
    \/ Next
    \/ UserCreateTrigger /\ UNCHANGED <<budget, ref, step, recovery, unbarriered>>

SpecTriggers == Init /\ [][TriggerNext]_vars

\* C21 as stated: under SpecTriggers, every temporary trigger that is not
\* named _<table>_it, _<table>_ut or _<table>_dt and exists before a
\* deactivate() of an active engine still exists after it.
C21_DeactivateKeepsOtherTriggers ==
    (lastOp = "deactivate" /\ pre.active) =>
        \A trg \in pre.triggers \ EngineTriggers : trg \in triggers

\* ------------------------------------------------------------- failure inside a step
\* The last call was an undo() or redo() that returned the error of a
\* replayed statement: BEGIN and the SELECT had succeeded.
ReplayFailed ==
    /\ lastOp \in {"undo", "redo"}
    /\ result = "Err"
    /\ ~pre.intxn
    /\ pre.undolog_exists

\* C22: when a replayed statement fails, undo() (redo()) returns the error,
\* the popped interval stays off the source stack, nothing is pushed on the
\* target stack, and firstlog keeps the value assigned before the replay:
\* 1 + the largest seq left after the interval's rows were deleted.
C22_FailedStepNotRolledBack ==
    ReplayFailed =>
        /\ SourceNow = SubSeq(SourceBefore, 1, Len(SourceBefore) - 1)
        /\ TargetNow = TargetBefore
        /\ firstlog = MaxKey(KeptRows) + 1

\* A redo whose replayed INSERT met a row with the same rowid, after it had
\* moved firstlog.
C22_Witness ==
    /\ ReplayFailed
    /\ lastOp = "redo"
    /\ firstlog # pre.firstlog
    /\ tables = pre.tables

\* ------------------------------------------------------------- recovery after a failed step
\* The caller's recovery sequence: a step fails on a replayed statement,
\* then deactivate(), activate(T), one mutation of a registered table,
\* barrier() and undo(); any other call leaves the sequence.
Phase(p) == [phase |-> p, tables |-> recovery.tables]

\* The mutation the caller makes after re-activating: INSERT INTO t VALUES(v)
\* on a registered table, beyond the statements counted by nstmt.
RecoveryInsert(t, v) ==
    LET db == SqlInsert(Db(tables, undolog, triggers), t, MaxKey(tables[t]) + 1, v)
    IN /\ Running
       /\ recovery.phase = "activated"
       /\ t \in Registered
       /\ db.ok
       /\ tables' = db.tables
       /\ undolog' = db.undolog
       /\ UNCHANGED <<active, undostack, redostack, firstlog, freeze,
                      undolog_exists, triggers, intxn>>
       /\ Called("INSERT", "Ok", NoPre, NoPre, appended \/ db.undolog # undolog,
                 "none", EmptyFn, "none", {}, linear)
       /\ recovery' = Phase("mutated")

RecoveryStatement ==
    /\ \/ \E t \in Tables, v \in Values : UserInsert(t, v)
       \/ \E t \in Tables : \E r \in DOMAIN tables[t], v \in Values : UserUpdate(t, r, v)
       \/ \E t \in Tables : \E r \in DOMAIN tables[t] : UserDelete(t, r)
    /\ recovery' = (IF recovery.phase = "activated" /\ undolog' # undolog
                    THEN Phase("mutated") ELSE NoRecovery)

RecoveryDeactivate ==
    /\ deactivate
    /\ recovery' = (IF recovery.phase = "failed" /\ active
                    THEN Phase("deactivated") ELSE NoRecovery)

RecoveryActivate(args) ==
    /\ activate(args)
    /\ recovery' = (IF recovery.phase = "deactivated"
                    THEN [phase |-> "activated", tables |-> tables]
                    ELSE NoRecovery)

RecoveryBarrier ==
    /\ barrier
    /\ recovery' = (IF recovery.phase = "mutated"
                    THEN Phase("barriered") ELSE NoRecovery)

\* undo() or redo(): a replayed statement that fails starts the sequence, the
\* undo() after the barrier ends it.
RecoveryStep(v1, v2) ==
    /\ _step(v1, v2)
    /\ recovery' = (IF result' = "Err" /\ ~intxn /\ undolog_exists
                    THEN Phase("failed")
                    ELSE IF recovery.phase = "barriered" /\ v1 = "undostack"
                    THEN Phase("undone") ELSE NoRecovery)

RecoveryNext ==
    \/ RecoveryStatement /\ UNCHANGED <<ref, step, unbarriered>>
    \/ \E t \in Tables, v \in Values : RecoveryInsert(t, v) /\ UNCHANGED <<budget, ref, step, unbarriered>>
    \/ \E args \in ActivateArgs : RecoveryActivate(args) /\ UNCHANGED <<budget, ref, step, unbarriered>>
    \/ RecoveryDeactivate /\ UNCHANGED <<budget, ref, step, unbarriered>>
    \/ RecoveryBarrier /\ UNCHANGED <<budget, ref, step, unbarriered>>
    \/ RecoveryStep("undostack", "redostack") /\ UNCHANGED <<budget, ref, step, unbarriered>>
    \/ RecoveryStep("redostack", "undostack") /\ UNCHANGED <<budget, ref, step, unbarriered>>

SpecRecovery == Init /\ [][RecoveryNext]_vars

\* C23 as stated: under SpecRecovery, after a step failed on a replayed
\* statement, deactivate() and activate(T) succeed and leave both stacks
\* empty, freeze = -1 and firstlog = 1; the mutation and the barrier() that
\* follow succeed; and the undo() after them succeeds and leaves the tables as
\* they were at the activate(T).
C23_RecoveryWorks ==
    /\ recovery.phase \in {"deactivated", "activated", "mutated", "barriered", "undone"} =>
           result = "Ok"
    /\ recovery.phase = "activated" =>
           /\ active
           /\ undostack = <<>> /\ redostack = <<>>
           /\ freeze = -1
           /\ firstlog = 1
    /\ recovery.phase = "undone" => tables = recovery.tables

\* ------------------------------------------------------------- runs without freeze
\* The engine in runs where freeze() and unfreeze() are never called, with
\* the rows no barrier has seen kept track of: unbarriered.open holds the
\* seqs logged since the last activate, barrier, undo or redo, and
\* unbarriered.dropped the rows that were open when an undo or redo ran.
FreeStatement ==
    /\ \/ \E t \in Tables, v \in Values : UserInsert(t, v)
       \/ \E t \in Tables : \E r \in DOMAIN tables[t], v \in Values : UserUpdate(t, r, v)
       \/ \E t \in Tables : \E r \in DOMAIN tables[t] : UserDelete(t, r)
    /\ unbarriered' = [unbarriered EXCEPT
                          !.open = @ \cup (DOMAIN undolog' \ DOMAIN undolog)]

FreeActivate(args) ==
    /\ activate(args)
    /\ unbarriered' = (IF active THEN unbarriered ELSE NoneOpen)

FreeDeactivate ==
    /\ deactivate
    /\ unbarriered' = (IF active THEN NoneOpen ELSE unbarriered)

FreeBarrier ==
    /\ barrier
    /\ unbarriered' = (IF active THEN [unbarriered EXCEPT !.open = {}]
                       ELSE unbarriered)

FreeStep(v1, v2) ==
    /\ _step(v1, v2)
    /\ unbarriered' = (IF result' = "Ok"
                       THEN [open |-> {},
                             dropped |-> Restrict(undolog, unbarriered.open)
                                           @@ unbarriered.dropped]
                       ELSE unbarriered)

FreeNext ==
    \/ FreeStatement /\ UNCHANGED <<ref, step, recovery>>
    \/ \E args \in ActivateArgs : FreeActivate(args) /\ UNCHANGED <<budget, ref, step, recovery>>
    \/ FreeDeactivate /\ UNCHANGED <<budget, ref, step, recovery>>
    \/ FreeBarrier /\ UNCHANGED <<budget, ref, step, recovery>>
    \/ FreeStep("undostack", "redostack") /\ UNCHANGED <<budget, ref, step, recovery>>
    \/ FreeStep("redostack", "undostack") /\ UNCHANGED <<budget, ref, step, recovery>>

SpecNoFreeze == Init /\ [][FreeNext]_vars

\* C24: under SpecNoFreeze, a row that was logged after the last barrier
\* when an undo() or redo() ran stays in undolog unchanged for the rest of
\* the activation and lies in no interval of either stack: not in the mirror
\* interval of that step and in none pushed later, so no step replays it.
C24_UnbarrieredRowsDropped ==
    \A q \in DOMAIN unbarriered.dropped :
        /\ q \in DOMAIN undolog
        /\ undolog[q] = unbarriered.dropped[q]
        /\ \A i \in 1..Len(Intervals) : q \notin Range(Intervals[i])

\* A redo that pushed a non-empty interval after an earlier undo had passed
\* over an un-barriered row.
C24_Witness ==
    /\ unbarriered.dropped # EmptyFn
    /\ lastOp = "redo" /\ result = "Ok"
    /\ undostack # <<>>
    /\ Range(Top(undostack)) # {}

\* C25: under SpecNoFreeze, as long as no step has failed, in every active
\* state the intervals of the two stacks taken together are pairwise
\* disjoint, every seq inside one of them is the seq of a row of undolog, and
\* every interval ends below firstlog.
C25_FreezeFreeWellFormed ==
    (active /\ ~intxn) =>
        /\ \A i, j \in 1..Len(Intervals) :
               i # j => Range(Intervals[i]) \cap Range(Intervals[j]) = {}
        /\ \A i \in 1..Len(Intervals) :
               /\ Range(Intervals[i]) \subseteq DOMAIN undolog
               /\ Intervals[i][2] < firstlog

\* A non-empty interval on the redo stack next to a row that the undo which
\* pushed it passed over.
C25_Witness ==
    /\ active /\ ~intxn
    /\ lastOp = "undo" /\ result = "Ok"
    /\ Range(Top(redostack)) # {}
    /\ unbarriered.dropped # EmptyFn
====
